---- MODULE Spec2Model ----
(***************************************************************************)
(* A model of the TCP broadcast relay of src/src/server.rs (the same code  *)
(* is repeated in src/src/main.rs): one event loop that races the listener *)
(* against the set of framed connections, and the dispatch of the event it *)
(* produced.  The clients and the transport are the environment.           *)
(***************************************************************************)
EXTENDS Integers, Sequences, FiniteSets, TLC

\* ---------------------------------------------------------------- bounds
\* number of things the clients and the transport do in one run (connect,
\* write a line, close, fail an accept); SpecDeep allows one more
MaxEnv == 4

\* SpecFair, whose clients never stop: number of connections that exist at
\* one time, and number of lines a client reads before the others hold back
MaxLive == 2
MaxRead == 2

\* ------------------------------------------------------- program constants
MAX_CODEC_LENGTH == 8192

\* lengths of the lines a client writes: the longest accepted one and the
\* shortest refused one
LineLens == {MAX_CODEC_LENGTH, MAX_CODEC_LENGTH + 1}

\* what a client writes up to a newline: bytes of those lengths and valid
\* UTF-8, or four bytes, UTF-8 or not
Lines ==
    {[len |-> n, utf8 |-> TRUE] : n \in LineLens \cup {4}} \cup {[len |-> 4, utf8 |-> FALSE]}

\* what a client writes without a newline: bytes of a line, without its end
PartLine == [len |-> 4000, utf8 |-> TRUE]

ConnIds == 1..(MaxEnv + 1)

VARIABLES
    pc,         \* position of the event loop
    conns,      \* SelectAll<FramedStream>: sequence of connections, head first
    ready,      \* FuturesUnordered: the streams to poll, in the order in
                \* which they were woken or pushed
    backlog,    \* connections the listener has not accepted yet
    ev,         \* the Event being handled
    idx,        \* position of the fan-out in conns
    acceptOff,  \* select!: the accept branch is disabled
    connsOff,   \* select!: the conns.next() branch is disabled
    nconn,      \* number of connections the clients opened
    port,       \* peer port of each connection
    cstate,     \* client side of each connection: none, open, closed
    inbuf,      \* lines written by the client and not yet read by the server
    partial,    \* number of bytes the client wrote after its last newline
    clientLog,    \* history: what the clients did, in order: the lines they
                \* wrote (a line's text is its place here) and their closes,
                \* each with the registry of that moment
    received,   \* lines each client read from its socket
    last,       \* history: the last NewMessage event dispatched
    nenv,       \* number of steps the environment has taken
    lim,        \* number of steps the environment may take
    fault       \* the panic that ended the loop, if any

vars == <<pc, conns, ready, backlog, ev, idx, acceptOff, connsOff, nconn, port,
          cstate, inbuf, partial, clientLog, received, last, nenv, lim, fault>>

\* the state of the server and what it wrote, the queue of woken streams
\* apart; the state of the clients
srv == <<pc, conns, backlog, ev, idx, acceptOff, connsOff, received, last, fault>>
cli == <<nconn, port, cstate, inbuf, partial, clientLog, lim>>

\* ---------------------------------------------------------------- helpers
Range(s) == {s[i] : i \in 1..Len(s)}

Remove(s, c) == SelectSeq(s, LAMBDA x : x # c)

Min(S) == CHOOSE x \in S : \A y \in S : x <= y

NoMsg == [txt |-> 0, len |-> 0, utf8 |-> TRUE]

NoEvent == [kind |-> "None", port |-> 0, sock |-> 0, msg |-> NoMsg]

NoLast == [src |-> 0, txt |-> 0, recips |-> <<>>, status |-> "none", failed |-> 0]

NoFault == [kind |-> "none", conn |-> 0]

Awaiting == {"accept", "race", "login", "fanout"}

\* ------------------------------------------------------------------- util
build_login_msg_noport(p) == [kind |-> "LOGIN", port |-> 0, txt |-> 0, len |-> 0]

build_login_msg(p) == [kind |-> "LOGIN", port |-> p, txt |-> 0, len |-> 0]

build_message_msg(p, content) ==
    [kind |-> "MESSAGE", port |-> p, txt |-> content.txt, len |-> content.len]

\* LinesCodec::new_with_max_length: a line longer than the maximum is an
\* error, and so is a line that is not UTF-8
Decode(line) == IF line.len > MAX_CODEC_LENGTH \/ ~line.utf8 THEN "Err" ELSE "Ok"

\* the last write of c that brought no newline
LastPart(c) ==
    CHOOSE k \in 1..Len(clientLog) :
        /\ clientLog[k].conn = c
        /\ clientLog[k].op = "part"
        /\ \A j \in (k + 1)..Len(clientLog) :
              ~(clientLog[j].conn = c /\ clientLog[j].op = "part")

\* the bytes c wrote after its last newline, as the codec hands them over
\* when it does not wait for the newline
Leftover(c) == [txt |-> LastPart(c), len |-> partial[c], utf8 |-> PartLine.utf8]

\* the codec has an item for the stream of c: a line that ended; bytes
\* without a newline that are more than the maximum (decode gives the error
\* without waiting for the newline); the bytes left when the peer closed
\* (decode_eof gives them as the last line)
HasItem(c) ==
    \/ inbuf[c] # <<>>
    \/ partial[c] > MAX_CODEC_LENGTH
    \/ (cstate[c] = "closed" /\ partial[c] > 0)

NextLine_newest(c) ==
    IF inbuf[c] # <<>> THEN inbuf[c][Len(inbuf[c])] ELSE Leftover(c)

\* the next line of a stream is the oldest unread one, and the bytes without
\* a newline come after the lines
NextLine(c) == IF inbuf[c] # <<>> THEN Head(inbuf[c]) ELSE Leftover(c)

StreamItem_headPort(c, line) == [port |-> port[conns[1]], msg |-> line]

\* FramedStream::poll_next tags the line with the port of its own stream
StreamItem(c, line) == [port |-> port[c], msg |-> line]

IsSender_never(connection, event) == FALSE

\* the test of the fan-out loop that skips the sender
IsSender(connection, event) == port[connection] = event.port

\* first position >= from of conns that the fan-out sends to, 0 when none
NextRecipient(cs, event, from) ==
    LET S == {i \in from..Len(cs) : ~IsSender(cs[i], event)}
    IN  IF S = {} THEN 0 ELSE Min(S)

\* outcome of a write to a socket: once the peer has closed, the write is
\* either taken by the transport or refused (the peer answered with a reset)
WriteOutcomes(c) == IF cstate[c] = "open" THEN {"ok"} ELSE {"ok", "err"}

\* a write that reaches every connected client
Deliver_everyone(c, rec) ==
    [d \in ConnIds |-> IF cstate[d] = "open" THEN Append(received[d], rec)
                                              ELSE received[d]]

\* what the client reads after a successful write: nothing once it is gone
Deliver(c, rec) ==
    IF cstate[c] = "open"
    THEN [received EXCEPT ![c] = Append(@, rec)]
    ELSE received

\* select_next_event is entered again: is_empty decides which wait it is
EnterSelect(cs) == IF cs = <<>> THEN "accept" ELSE "race"

\* --------------------------------------------------------------------- Init
\* serve: no connection yet, the listener is bound, the loop is entered
Start ==
    /\ pc = "accept"
    /\ conns = <<>>
    /\ ready = <<>>
    /\ backlog = <<>>
    /\ ev = NoEvent
    /\ idx = 0
    /\ acceptOff = FALSE
    /\ connsOff = FALSE
    /\ nconn = 0
    /\ port = [c \in ConnIds |-> 0]
    /\ cstate = [c \in ConnIds |-> "none"]
    /\ inbuf = [c \in ConnIds |-> <<>>]
    /\ partial = [c \in ConnIds |-> 0]
    /\ clientLog = <<>>
    /\ received = [c \in ConnIds |-> <<>>]
    /\ last = NoLast
    /\ nenv = 0
    /\ fault = NoFault

Init == Start /\ lim = MaxEnv

\* ------------------------------------------------------------- environment
Running == pc \in Awaiting /\ nenv < lim

\* the peer port (addr.port()) of a new connection is one no connection had
\* before, or the port of an earlier connection: a peer on another host, or
\* the same peer again.  Ports are numbered from 5001 in order of appearance
UsedPorts == {port[c] : c \in 1..nconn}

Ports == UsedPorts \cup {5001 + Cardinality(UsedPorts)}

\* a client connects; the transport gives it the port p
Connect(p) ==
    /\ Running
    /\ nenv' = nenv + 1
    /\ nconn' = nconn + 1
    /\ port' = [port EXCEPT ![nconn + 1] = p]
    /\ cstate' = [cstate EXCEPT ![nconn + 1] = "open"]
    /\ backlog' = Append(backlog, nconn + 1)
    /\ UNCHANGED <<pc, conns, ready, ev, idx, acceptOff, connsOff, inbuf, partial,
                   clientLog, received, last, fault, lim>>

\* the server still holds the socket of c
Held(c) ==
    \/ c \in Range(backlog)
    \/ c \in Range(conns)
    \/ (pc = "login" /\ ev.sock = c)

\* the socket of c becomes readable: its stream is woken, which puts it at
\* the end of the queue unless it is there already; a stream that is not in
\* the registry yet has no task to wake
Woken(c) ==
    IF c \in Range(conns) /\ c \notin Range(ready) THEN Append(ready, c) ELSE ready

\* a client writes bytes and a newline: they end the line that the bytes it
\* wrote since its last newline began
ClientSend(c, line) ==
    /\ Running
    /\ cstate[c] = "open"
    /\ Held(c)
    /\ nenv' = nenv + 1
    /\ inbuf' = [inbuf EXCEPT ![c] = Append(@, [txt |-> Len(clientLog) + 1,
                                                len |-> partial[c] + line.len,
                                                utf8 |-> line.utf8])]
    /\ partial' = [partial EXCEPT ![c] = 0]
    /\ clientLog' = Append(clientLog, [op |-> "send", conn |-> c,
                                       len |-> partial[c] + line.len,
                                       reg |-> Range(conns)])
    /\ ready' = Woken(c)
    /\ UNCHANGED <<srv, nconn, port, cstate, lim>>

\* a client writes bytes without a newline: the socket is readable and the
\* line has not ended; the history keeps the length of the line so far
ClientSendPart(c) ==
    /\ Running
    /\ cstate[c] = "open"
    /\ Held(c)
    /\ nenv' = nenv + 1
    /\ partial' = [partial EXCEPT ![c] = @ + PartLine.len]
    /\ clientLog' = Append(clientLog, [op |-> "part", conn |-> c,
                                       len |-> partial[c] + PartLine.len,
                                       reg |-> Range(conns)])
    /\ ready' = Woken(c)
    /\ UNCHANGED <<srv, nconn, port, cstate, inbuf, lim>>

\* a client closes its socket, in the middle of a line or not
ClientClose(c) ==
    /\ Running
    /\ cstate[c] = "open"
    /\ Held(c)
    /\ nenv' = nenv + 1
    /\ cstate' = [cstate EXCEPT ![c] = "closed"]
    /\ clientLog' = Append(clientLog, [op |-> "close", conn |-> c, len |-> 0,
                                       reg |-> Range(conns)])
    /\ ready' = Woken(c)
    /\ UNCHANGED <<srv, nconn, port, inbuf, partial, lim>>

\* ------------------------------------------------------- select_next_event
NewConnection(c) == [kind |-> "NewConnection", port |-> port[c], sock |-> c,
                     msg |-> NoMsg]

NewMessage(item) == [kind |-> "NewMessage", port |-> item.port, sock |-> 0,
                     msg |-> item.msg]

\* the loop is gone (a panic unwinds serve, or select! drops the loop and
\* serve returns): conns and the listener are dropped with it
Gone(how, why) ==
    /\ pc' = how
    /\ fault' = why
    /\ conns' = <<>>
    /\ ready' = <<>>
    /\ backlog' = <<>>
    /\ ev' = NoEvent
    /\ idx' = 0
    /\ acceptOff' = FALSE
    /\ connsOff' = FALSE

\* conns.is_empty(): listener.accept() alone is awaited and it resolves Ok
AcceptOnly ==
    /\ pc = "accept"
    /\ backlog # <<>>
    /\ ev' = NewConnection(Head(backlog))
    /\ backlog' = Tail(backlog)
    /\ pc' = "login"
    /\ UNCHANGED <<conns, ready, idx, acceptOff, connsOff, received, last, fault,
                   cli, nenv>>

\* conns.is_empty(): accept() resolves Err, `?` returns it, serve loops
AcceptOnlyErr ==
    /\ pc = "accept"
    /\ nenv < lim
    /\ nenv' = nenv + 1
    /\ pc' = EnterSelect(conns)
    /\ UNCHANGED <<conns, ready, backlog, ev, idx, acceptOff, connsOff, received,
                   last, fault, cli>>

\* an accept that does not wait for the dispatch in progress
RaceAccept_anytime ==
    /\ pc \in {"race", "fanout"}
    /\ ~acceptOff
    /\ backlog # <<>>
    /\ backlog' = Tail(backlog)
    /\ conns' = <<Head(backlog)>> \o conns
    /\ ready' = Append(ready, Head(backlog))
    /\ idx' = IF pc = "fanout" THEN idx + 1 ELSE idx
    /\ UNCHANGED <<pc, ev, acceptOff, connsOff, received, last, fault, cli, nenv>>

\* select!: the accept branch resolves Ok and wins
RaceAccept ==
    /\ pc = "race"
    /\ ~acceptOff
    /\ backlog # <<>>
    /\ ev' = NewConnection(Head(backlog))
    /\ backlog' = Tail(backlog)
    /\ pc' = "login"
    /\ UNCHANGED <<conns, ready, idx, acceptOff, connsOff, received, last, fault,
                   cli, nenv>>

\* select!: accept() resolves Err, the pattern Ok(..) does not match and the
\* branch is disabled; with both branches disabled select! panics
RaceAcceptErr ==
    /\ pc = "race"
    /\ ~acceptOff
    /\ nenv < lim
    /\ nenv' = nenv + 1
    /\ IF connsOff
       THEN Gone("panicked", [kind |-> "select", conn |-> 0])
       ELSE /\ acceptOff' = TRUE
            /\ UNCHANGED <<pc, fault, conns, ready, backlog, ev, idx, connsOff>>
    /\ UNCHANGED <<received, last, cli>>

\* conns.next(): one poll of SelectAll over the registry l with the queue q.
\* FuturesUnordered takes the woken streams in turn, unlinks each one and
\* polls it: a stream that has no item is linked again, which puts it at the
\* head; a stream that ended is dropped; the first stream that has a line
\* yields it and SelectAll pushes the stream back, at the head of the
\* registry and at the end of the queue.  conn is the stream that yielded,
\* 0 when the queue ran out
RECURSIVE PollPass(_, _)
PollPass(l, q) ==
    IF q = <<>>
    THEN [conns |-> l, ready |-> q, conn |-> 0]
    ELSE LET c == Head(q)
         IN  IF HasItem(c)
             THEN [conns |-> <<c>> \o Remove(l, c), ready |-> Append(Tail(q), c),
                   conn |-> c]
             ELSE IF cstate[c] = "closed"
                  THEN PollPass(Remove(l, c), Tail(q))
                  ELSE PollPass(<<c>> \o Remove(l, c), Tail(q))

\* the poll gets to stream c: no stream before it in the queue has a line
Reached(c) ==
    \E k \in 1..Len(ready) :
        /\ ready[k] = c
        /\ \A j \in 1..(k - 1) : ~HasItem(ready[j])

\* select!: conns.next() is Pending: the woken streams were polled and none
\* has a line; those that ended are gone and some stream is left
RacePending ==
    /\ pc = "race"
    /\ ~connsOff
    /\ ready # <<>>
    /\ LET p == PollPass(conns, ready)
       IN  /\ p.conn = 0
           /\ p.conns # <<>>
           /\ conns' = p.conns
           /\ ready' = p.ready
    /\ UNCHANGED <<pc, fault, backlog, ev, idx, acceptOff, connsOff, received,
                   last, cli, nenv>>

\* select!: conns.next() is None: every stream ended (SelectAll drops an
\* ended stream without an item), the pattern Some(res) does not match and
\* the branch is disabled
RaceEnd ==
    /\ pc = "race"
    /\ ~connsOff
    /\ LET p == PollPass(conns, ready)
       IN  /\ p.conn = 0
           /\ p.conns = <<>>
    /\ IF acceptOff
       THEN Gone("panicked", [kind |-> "select", conn |-> 0])
       ELSE /\ conns' = <<>>
            /\ ready' = <<>>
            /\ connsOff' = TRUE
            /\ UNCHANGED <<pc, fault, backlog, ev, idx, acceptOff>>
    /\ UNCHANGED <<received, last, cli, nenv>>

\* select!: conns.next() yields the next line of stream c, the first woken
\* stream that has one.  Ok((port, msg)) becomes the NewMessage event and
\* handle_event starts the fan-out at its first recipient; Err(..) reaches
\* unreachable!()
RaceMessage(c) ==
    /\ pc = "race"
    /\ ~connsOff
    /\ PollPass(conns, ready).conn = c
    /\ LET line  == NextLine(c)
           p     == PollPass(conns, ready)
           cs    == p.conns
           event == NewMessage(StreamItem(c, line))
           n     == NextRecipient(cs, event, 1)
       IN  /\ inbuf' = [inbuf EXCEPT ![c] = Remove(@, line)]
           /\ partial' = IF inbuf[c] # <<>> THEN partial
                                            ELSE [partial EXCEPT ![c] = 0]
           /\ IF Decode(line) = "Err"
              THEN /\ Gone("panicked", [kind |-> "framing", conn |-> c])
                   /\ last' = last
              ELSE /\ conns' = cs
                   /\ ready' = p.ready
                   /\ acceptOff' = FALSE
                   /\ connsOff' = FALSE
                   /\ last' = [src |-> c, txt |-> line.txt, recips |-> cs,
                               status |-> IF n = 0 THEN "ok" ELSE "running",
                               failed |-> 0]
                   /\ pc' = IF n = 0 THEN EnterSelect(cs) ELSE "fanout"
                   /\ ev' = IF n = 0 THEN NoEvent ELSE event
                   /\ idx' = n
                   /\ UNCHANGED <<backlog, fault>>
    /\ UNCHANGED <<nconn, port, cstate, clientLog, received, nenv, lim>>

\* select!: conns.next() yields Err(Io) for stream c, whose peer closed and
\* the transport reports it as a reset instead of an end: unreachable!()
RaceReadErr(c) ==
    /\ pc = "race"
    /\ ~connsOff
    /\ Reached(c)
    /\ cstate[c] = "closed"
    /\ inbuf[c] = <<>>
    /\ Gone("panicked", [kind |-> "read", conn |-> c])
    /\ UNCHANGED <<received, last, cli, nenv>>

\* ------------------------------------------------------------ handle_event
PushIfSent_always(cs, sock, outcome) == <<sock>> \o cs

\* a push that replaces the registry by the new stream
PushIfSent_alone(cs, sock, outcome) == IF outcome = "ok" THEN <<sock>> ELSE cs

\* conns.push(framed) is reached only when send(..).await? did not return Err
PushIfSent(cs, sock, outcome) == IF outcome = "ok" THEN <<sock>> \o cs ELSE cs

\* NewConnection: framed.send(LOGIN) completes; Ok pushes the stream, at the
\* head of the registry and at the end of the queue of streams to poll; Err
\* returns through `?` and the socket is dropped
LoginSend(outcome) ==
    /\ pc = "login"
    /\ outcome \in WriteOutcomes(ev.sock)
    /\ received' = IF outcome = "ok"
                   THEN Deliver(ev.sock, build_login_msg(ev.port))
                   ELSE received
    /\ conns' = PushIfSent(conns, ev.sock, outcome)
    /\ ready' = IF conns' # conns THEN Append(ready, ev.sock) ELSE ready
    /\ pc' = EnterSelect(conns')
    /\ ev' = NoEvent
    /\ acceptOff' = FALSE
    /\ connsOff' = FALSE
    /\ UNCHANGED <<backlog, idx, last, fault, cli, nenv>>

\* NewMessage: connection.inner.send(&msg) to conns[idx] completes; Ok goes
\* on to the next recipient, or returns when there is none; Err returns
\* through `?` and ends the loop over conns
FanoutSend(outcome) ==
    /\ pc = "fanout"
    /\ outcome \in WriteOutcomes(conns[idx])
    /\ LET n == NextRecipient(conns, ev, idx + 1)
       IN  IF outcome = "ok"
           THEN /\ received' = Deliver(conns[idx], build_message_msg(ev.port, ev.msg))
                /\ pc' = IF n = 0 THEN EnterSelect(conns) ELSE "fanout"
                /\ ev' = IF n = 0 THEN NoEvent ELSE ev
                /\ idx' = n
                /\ last' = IF n = 0 THEN [last EXCEPT !.status = "ok"] ELSE last
           ELSE /\ last' = [last EXCEPT !.status = "err", !.failed = conns[idx]]
                /\ pc' = EnterSelect(conns)
                /\ ev' = NoEvent
                /\ idx' = 0
                /\ received' = received
    /\ acceptOff' = FALSE
    /\ connsOff' = FALSE
    /\ UNCHANGED <<conns, ready, backlog, fault, cli, nenv>>

\* ------------------------------------------------------------------- serve
\* ctrl_c resolves: select! drops the event loop at the await it is at
Shutdown ==
    /\ pc \in Awaiting
    /\ Gone("stopped", fault)
    /\ UNCHANGED <<received, last, cli, nenv>>

Next ==
    \/ \E p \in Ports : Connect(p)
    \/ \E c \in ConnIds, line \in Lines : ClientSend(c, line)
    \/ \E c \in ConnIds : ClientSendPart(c)
    \/ \E c \in ConnIds : ClientClose(c)
    \/ AcceptOnly
    \/ AcceptOnlyErr
    \/ RaceAccept
    \/ RaceAcceptErr
    \/ RacePending
    \/ RaceEnd
    \/ \E c \in ConnIds : RaceMessage(c)
    \/ \E c \in ConnIds : RaceReadErr(c)
    \/ \E o \in {"ok", "err"} : LoginSend(o)
    \/ \E o \in {"ok", "err"} : FanoutSend(o)
    \/ Shutdown

Spec == Init /\ [][Next]_vars

\* the same program with one more step of the environment
InitDeep == Start /\ lim = MaxEnv + 1
SpecDeep == InitDeep /\ [][Next]_vars

\* ------------------------------------------------------- unending clients
\* The environment of SpecFair: clients that come, write and leave for ever.
\* It keeps no history (clientLog, nenv) and reuses the place of a connection
\* that is gone, so that a run in which one family of events never gets its
\* turn is a cycle of states.
LiveIds == 1..MaxLive

Max(a, b) == IF a >= b THEN a ELSE b

\* a client connects on a free place; its peer port is that of the place
Arrive(c) ==
    /\ pc \in Awaiting
    /\ cstate[c] # "open"
    /\ ~Held(c)
    /\ \A d \in 1..(c - 1) : cstate[d] # "none"
    /\ nconn' = Max(nconn, c)
    /\ port' = [port EXCEPT ![c] = 5000 + c]
    /\ cstate' = [cstate EXCEPT ![c] = "open"]
    /\ inbuf' = [inbuf EXCEPT ![c] = <<>>]
    /\ received' = [received EXCEPT ![c] = <<>>]
    /\ backlog' = Append(backlog, c)
    /\ UNCHANGED <<pc, conns, ready, ev, idx, acceptOff, connsOff, partial,
                   clientLog, last, fault, nenv, lim>>

\* a client whose last line was taken writes the next one
Write(c, n) ==
    /\ pc \in Awaiting
    /\ cstate[c] = "open"
    /\ Held(c)
    /\ inbuf[c] = <<>>
    /\ \A d \in LiveIds : Len(received[d]) < MaxRead
    /\ inbuf' = [inbuf EXCEPT ![c] = <<[txt |-> 1, len |-> n, utf8 |-> TRUE]>>]
    /\ ready' = Woken(c)
    /\ UNCHANGED <<srv, nconn, port, cstate, partial, clientLog, nenv, lim>>

\* a client closes its socket
Leave(c) ==
    /\ pc \in Awaiting
    /\ cstate[c] = "open"
    /\ Held(c)
    /\ cstate' = [cstate EXCEPT ![c] = "closed"]
    /\ ready' = Woken(c)
    /\ UNCHANGED <<srv, nconn, port, inbuf, partial, clientLog, nenv, lim>>

\* the same event loop; accept does not fail here (lim = 0)
NextFair ==
    \/ \E c \in LiveIds : Arrive(c)
    \/ \E c \in LiveIds, n \in LineLens : Write(c, n)
    \/ \E c \in LiveIds : Leave(c)
    \/ AcceptOnly
    \/ RaceAccept
    \/ RacePending
    \/ RaceEnd
    \/ \E c \in LiveIds : RaceMessage(c)
    \/ \E c \in LiveIds : RaceReadErr(c)
    \/ \E o \in {"ok", "err"} : LoginSend(o)
    \/ \E o \in {"ok", "err"} : FanoutSend(o)
    \/ Shutdown

InitFair == Start /\ lim = 0

\* a race that only serves a branch that stays ready without interruption
RaceFairness_weak ==
    /\ WF_vars(RaceAccept)
    /\ \A c \in LiveIds : WF_vars(RaceMessage(c))

\* select! polls its branches in a random order each time it is entered:
\* a branch that is ready again and again is taken
RaceFairness ==
    /\ SF_vars(RaceAccept)
    /\ \A c \in LiveIds : SF_vars(RaceMessage(c))

\* the awaits of the loop that are not a race complete: the accept of the
\* is_empty branch when a connection is pending, and a write to a socket
AwaitProgress ==
    /\ WF_vars(AcceptOnly)
    /\ WF_vars(\E o \in {"ok", "err"} : LoginSend(o))
    /\ WF_vars(\E o \in {"ok", "err"} : FanoutSend(o))

SpecFair == InitFair /\ [][NextFair]_vars /\ RaceFairness /\ AwaitProgress

TypeOK ==
    /\ pc \in Awaiting \cup {"panicked", "stopped"}
    /\ Range(conns) \subseteq 1..nconn
    /\ Range(backlog) \subseteq 1..nconn
    /\ pc = "fanout" <=> idx \in 1..Len(conns)
    /\ pc = "accept" => conns = <<>>
    /\ pc = "race" => (connsOff <=> conns = <<>>)
    /\ Range(ready) \subseteq Range(conns)
    /\ Cardinality(Range(ready)) = Len(ready)
    /\ Cardinality(Range(conns)) = Len(conns)
    /\ \A c \in Range(conns) :
          (HasItem(c) \/ cstate[c] = "closed") => c \in Range(ready)

\* ------------------------------------------------------------------ claims
IsMessage(c, i) == received[c][i].kind = "MESSAGE"

\* how many times client c read the broadcast of the line with text t
CountMsg(c, t) ==
    Cardinality({i \in 1..Len(received[c]) : IsMessage(c, i) /\ received[c][i].txt = t})

\* the connections that were in the registry when the last NewMessage event
\* was dispatched, its sender excluded
LastOthers == Range(last.recips) \ {last.src}

\* C1: under no-fault conditions, when the fan-out of a line that a
\* registered connection wrote has completed, every other connection that was
\* registered at its dispatch (and is still there to read) has received
\* exactly one MESSAGE for it.
C1_ExactlyOnce ==
    (/\ last.status = "ok"
     /\ fault.kind = "none"
     /\ last.src \in clientLog[last.txt].reg) =>
        \A r \in LastOthers : cstate[r] = "open" => CountMsg(r, last.txt) = 1

\* C2: on every recipient, the MESSAGE lines of one sender appear in the
\* order in which that sender wrote the lines.
C2_SendOrder ==
    \A c \in ConnIds : \A i, j \in 1..Len(received[c]) :
        (/\ i < j
         /\ IsMessage(c, i)
         /\ IsMessage(c, j)
         /\ clientLog[received[c][i].txt].conn = clientLog[received[c][j].txt].conn)
        => received[c][i].txt < received[c][j].txt

\* a recipient has read two broadcasts of the same sender
C2_Witness ==
    \E c \in ConnIds : \E i, j \in 1..Len(received[c]) :
        /\ i < j
        /\ IsMessage(c, i)
        /\ IsMessage(c, j)
        /\ clientLog[received[c][i].txt].conn = clientLog[received[c][j].txt].conn

\* C3: no connection has received a MESSAGE line that carries its own
\* identifier.
C3_NoOwnMessage ==
    \A c \in ConnIds : \A i \in 1..Len(received[c]) :
        IsMessage(c, i) => received[c][i].port # port[c]

\* a fan-out has completed that skipped its sender and delivered to another
\* connection
C3_Witness ==
    /\ last.status = "ok"
    /\ cstate[last.src] = "open"
    /\ \E r \in LastOthers : CountMsg(r, last.txt) = 1

\* C4: a connection reads at most one LOGIN, it carries the connection's own
\* port and it is the first line the connection reads; nothing is read before
\* the connection is registered, a registered connection has been sent its
\* LOGIN, and the sender of a broadcast is registered.
C4_LoginFirst ==
    /\ \A c \in ConnIds :
        /\ received[c] # <<>> =>
              received[c][1].kind = "LOGIN" /\ received[c][1].port = port[c]
        /\ \A i \in 2..Len(received[c]) : received[c][i].kind # "LOGIN"
        /\ (c \in Range(conns) /\ cstate[c] = "open") => received[c] # <<>>
        /\ (c \in Range(backlog) \/ (pc = "login" /\ ev.sock = c)) => received[c] = <<>>
    /\ pc = "fanout" => last.src \in Range(conns)

\* a connection has read its LOGIN and then a broadcast
C4_Witness ==
    \E c \in ConnIds :
        /\ Len(received[c]) >= 2
        /\ received[c][1].kind = "LOGIN"
        /\ IsMessage(c, 2)

\* the connection that wrote the line of the i-th line c has read was in the
\* registry when it wrote it
SentWhileRegistered(c, i) ==
    clientLog[received[c][i].txt].conn \in clientLog[received[c][i].txt].reg

\* C5, as stated: every MESSAGE line a client has read is a line that the
\* connection whose port it carries wrote while it was registered.
C5_WhileRegistered ==
    \A c \in ConnIds : \A i \in 1..Len(received[c]) :
        IsMessage(c, i) => SentWhileRegistered(c, i)

\* C5, amended: every MESSAGE line a client has read carries the text and the
\* length of a line that some connection wrote, before or after it was
\* registered, and the port of that connection, and a line is dispatched only
\* for a connection that is registered.
C5_Authentic ==
    /\ \A c \in ConnIds : \A i \in 1..Len(received[c]) :
        IsMessage(c, i) =>
            /\ received[c][i].txt \in 1..Len(clientLog)
            /\ received[c][i].len = clientLog[received[c][i].txt].len
            /\ received[c][i].port = port[clientLog[received[c][i].txt].conn]
    /\ pc = "fanout" =>
            /\ last.src \in Range(conns)
            /\ clientLog[ev.msg.txt].conn = last.src
            /\ ev.port = port[last.src]

\* a client has read a broadcast of a line that its sender wrote before it
\* was registered, while a connection with another port than the sender's
\* has read its LOGIN
C5_Witness ==
    \E c \in ConnIds : \E i \in 1..Len(received[c]) :
        /\ IsMessage(c, i)
        /\ ~SentWhileRegistered(c, i)
        /\ \E d \in ConnIds : d # clientLog[received[c][i].txt].conn
                              /\ received[d] # <<>>
                              /\ port[d] # received[c][i].port

\* the connections of the last fan-out have pairwise distinct identifiers
LastDistinct ==
    Cardinality({port[r] : r \in Range(last.recips)}) = Len(last.recips)

\* C6: when a send of a fan-out fails, every other recipient of that fan-out
\* that is there to read still receives the message.
C6_BestEffort ==
    (last.status = "err" /\ LastDistinct) =>
        \A r \in LastOthers :
            (r # last.failed /\ cstate[r] = "open") => CountMsg(r, last.txt) = 1

\* the step in which the stream of c yields a line that the codec refuses
FramingError(c) == RaceMessage(c) /\ Decode(NextLine(c)) = "Err"

\* C7: when a connection that was registered when it wrote a line longer than
\* the maximum has that line read, beside other registered connections, it is
\* the only one disconnected: the loop goes on and every other registered
\* connection stays registered.
C7_FramingIsolated ==
    [][\A c \in ConnIds :
          (/\ FramingError(c)
           /\ NextLine(c).len > MAX_CODEC_LENGTH
           /\ c \in clientLog[NextLine(c).txt].reg
           /\ Range(conns) # {c})
          => /\ pc' \in {"accept", "race"}
             /\ Range(conns') = Range(conns) \ {c}]_vars

\* a step in which one connection fails: a read error, a framing error, a
\* write error during a fan-out, a login-send error
ConnFailure ==
    \/ \E c \in ConnIds : RaceReadErr(c)
    \/ \E c \in ConnIds : FramingError(c)
    \/ FanoutSend("err")
    \/ LoginSend("err")

\* C8: no failure of a single connection ends the event loop: after it the
\* loop is awaiting the next event again.
C8_LoopSurvives == [][ConnFailure => pc' \in {"accept", "race"}]_vars

\* C9: once a write to a registered connection has failed, that connection
\* is not in the registry.
C9_WriteFailureRemoves ==
    last.status = "err" => last.failed \notin Range(conns)

\* connection a closed while the registry held exactly the connections R,
\* before the line with text t was written
ClosedBefore(a, R, t) ==
    \E k \in 1..(t - 1) : /\ clientLog[k].op = "close"
                          /\ clientLog[k].conn = a
                          /\ clientLog[k].reg = R

\* C10: with A, B and C registered under three identifiers, A closed and B
\* writing a line after that, once the line of B has been dispatched C has
\* received exactly one MESSAGE for it and A none.
C10_ScenarioTwo ==
    \A a, c \in LastOthers :
        (/\ last.status \in {"ok", "err"}
         /\ a # c
         /\ Range(last.recips) = {a, last.src, c}
         /\ clientLog[last.txt].reg = {a, last.src, c}
         /\ ClosedBefore(a, {a, last.src, c}, last.txt)
         /\ cstate[c] = "open"
         /\ LastDistinct)
        => (CountMsg(c, last.txt) = 1 /\ CountMsg(a, last.txt) = 0)

\* C11: a connection enters the registry only in the step in which its LOGIN
\* was written successfully, one connection at a time; when the write of the
\* LOGIN fails the registry is what it was before the event and the server
\* holds the connection nowhere
C11_LoginThenInsert ==
    [][ /\ LoginSend("err") =>
              /\ conns' = conns
              /\ ev.sock \notin Range(conns') \cup Range(backlog')
              /\ pc' # "login"
        /\ \A c \in Range(conns') \ Range(conns) :
              /\ pc = "login" /\ ev.kind = "NewConnection" /\ ev.sock = c
              /\ conns' = <<c>> \o conns
              /\ cstate[c] = "open" =>
                    received'[c] = Append(received[c], build_login_msg(port[c]))
      ]_vars

\* the only connection there was had closed when its LOGIN was written and
\* the write failed: the loop is back at the accept of an empty registry
C11_Witness ==
    /\ nconn = 1
    /\ cstate[1] = "closed"
    /\ backlog = <<>>
    /\ pc = "accept"
    /\ received[1] = <<>>
    /\ nenv = 2

\* C12: in every reachable state the identifiers (peer ports) of the entries
\* of the registry are pairwise distinct
C12_UniqueIds ==
    \A i, j \in 1..Len(conns) : i # j => port[conns[i]] # port[conns[j]]

\* the loop is at the wait of select_next_event and the registry is empty
EmptyWait == pc \in {"accept", "race"} /\ conns = <<>>

\* the wait on an empty registry: the set of connections is not raced and
\* a pending connection can be accepted
EmptyWaitListens ==
    EmptyWait =>
        /\ pc = "race" => connsOff
        /\ ~ENABLED \/ RacePending
                    \/ RaceEnd
                    \/ \E c \in ConnIds : RaceMessage(c) \/ RaceReadErr(c)
        /\ backlog # <<>> => ENABLED (AcceptOnly \/ RaceAccept)

\* the steps from an empty registry: the accept gives the NewConnection
\* event, the write of its LOGIN registers it alone, and no step panics
EmptyWaitStep ==
    /\ (EmptyWait /\ backlog # <<>> /\ backlog' = Tail(backlog) /\ pc' \in Awaiting) =>
          /\ pc' = "login"
          /\ ev' = NewConnection(Head(backlog))
          /\ conns' = <<>>
    /\ (pc = "login" /\ conns = <<>> /\ LoginSend("ok")) =>
          /\ conns' = <<ev.sock>>
          /\ pc' = "race"
          /\ cstate[ev.sock] = "open" =>
                received'[ev.sock] = <<build_login_msg(port[ev.sock])>>
    /\ EmptyWait => pc' # "panicked"

\* C13: whenever the registry is empty (at the start, or when every stream
\* has ended) the loop waits on the listener only and never panics, and a
\* connection that arrives is accepted, sent its LOGIN and registered
C13_EmptyRegistry == [](EmptyWaitListens) /\ [][EmptyWaitStep]_vars

\* listener.accept() resolves Err, in either wait of select_next_event
AcceptFailure == AcceptOnlyErr \/ RaceAcceptErr

\* C14: an accept error is never fatal: in every state in which it occurs
\* the loop is still at the wait of select_next_event after it, neither
\* panicked nor stopped
C14_AcceptErrTransient == [][AcceptFailure => pc' \in {"accept", "race"}]_vars

LoopGone == pc \in {"panicked", "stopped"}

\* C15: under fair resolution of the race, and as long as the loop is not
\* ended, a line that is ready on a registered connection is eventually
\* taken from its stream and a pending connection is eventually accepted,
\* whatever the other family of events does
C15_NoStarvation ==
    /\ \A c \in LiveIds :
          (c \in Range(conns) /\ inbuf[c] # <<>>) ~> (inbuf[c] = <<>> \/ LoopGone)
    /\ \A c \in LiveIds :
          (c \in Range(backlog)) ~> ((pc = "login" /\ ev.sock = c) \/ LoopGone)

\* both branches of select! are ready: a connection is pending while a
\* registered connection has a line ready
C15_Witness ==
    /\ pc = "race"
    /\ ~acceptOff /\ ~connsOff
    /\ backlog # <<>>
    /\ \E c \in Range(conns) : inbuf[c] # <<>>

\* client c read the broadcast of the last NewMessage event
GotLast(c) ==
    \E i \in 1..Len(received[c]) : IsMessage(c, i) /\ received[c][i].txt = last.txt

\* C16: when the server has stopped on the cancellation signal no event is
\* left partially processed: of two recipients of the last broadcast that are
\* connected and whose ports differ from each other and from the port of
\* the sender, the second has read it whenever the first has
C16_NoPartialEvent ==
    pc = "stopped" =>
        \A a, b \in LastOthers :
            ( /\ last.status = "running"
              /\ cstate[a] = "open" /\ cstate[b] = "open"
              /\ port[a] # port[last.src] /\ port[b] # port[last.src]
              /\ port[a] # port[b]
              /\ GotLast(a) ) => GotLast(b)

\* C17: the step in which the loop finds that a registered connection has
\* closed or errored produces the Disconnected event of that connection,
\* which is dispatched next
C17_DisconnectedEvent ==
    [][\A c \in ConnIds :
          (/\ pc = "race"
           /\ c \in Range(conns)
           /\ cstate[c] = "closed"
           /\ RacePending \/ RaceEnd \/ RaceReadErr(c)
           /\ c \notin Range(conns')) =>
              /\ ev'.kind = "Disconnected"
              /\ ev'.port = port[c]
              /\ pc' \in Awaiting]_vars

\* the write of the fan-out that is awaited completes, or the loop is dropped
SendEnds == (\E o \in {"ok", "err"} : FanoutSend(o)) \/ Shutdown

\* C18: while the write of a broadcast to one recipient has not completed
\* the loop does nothing else: no other recipient is written to, no
\* connection is accepted and no line is taken from any stream; when the
\* write completes, it is the only socket written to
C18_BlockedSendStalls ==
    [][pc = "fanout" =>
          /\ ~SendEnds =>
                /\ UNCHANGED <<pc, conns, ev, idx, received, last>>
                /\ \A c \in ConnIds : Len(inbuf'[c]) >= Len(inbuf[c])
                /\ Len(backlog') >= Len(backlog)
                /\ SubSeq(backlog', 1, Len(backlog)) = backlog
          /\ \A c \in ConnIds \ {conns[idx]} : received'[c] = received[c]
      ]_vars

\* the write of a broadcast to a connected recipient is awaited while a
\* connection is pending
C18_Witness ==
    /\ pc = "fanout"
    /\ cstate[conns[idx]] = "open"
    /\ backlog # <<>>

\* C19: the dispatch of a NewConnection event, whether the write of the
\* LOGIN succeeds or fails, changes what no other connection has received
\* and keeps every entry of the registry, in its place
C19_LoginFrame ==
    [][(\E o \in {"ok", "err"} : LoginSend(o)) =>
          /\ \A c \in ConnIds \ {ev.sock} : received'[c] = received[c]
          /\ Len(conns') >= Len(conns)
          /\ SubSeq(conns', Len(conns') - Len(conns) + 1, Len(conns')) = conns
      ]_vars

\* a second connection was registered next to the first one, which is
\* connected and has read nothing but its own LOGIN
C19_Witness ==
    /\ conns = <<2, 1>>
    /\ pc = "race"
    /\ cstate[1] = "open"
    /\ received[1] = <<build_login_msg(port[1])>>
    /\ received[2] = <<build_login_msg(port[2])>>

\* in this step client c reads one more line, a broadcast
ReadsMessage(c) ==
    /\ Len(received'[c]) = Len(received[c]) + 1
    /\ received'[c][Len(received'[c])].kind = "MESSAGE"

\* C20: a broadcast is read only by a connection that was in the registry
\* when its NewMessage event was dispatched, it is the broadcast of that
\* event and the LOGIN of the connection was read before it; a connection
\* that enters the registry has read no broadcast
C20_NoReplay ==
    [][\A c \in ConnIds :
          /\ ReadsMessage(c) =>
                /\ pc = "fanout" /\ c = conns[idx]
                /\ c \in Range(last.recips)
                /\ received'[c][Len(received'[c])].txt = last.txt
                /\ received[c] # <<>>
                /\ received[c][1] = build_login_msg(port[c])
          /\ c \in Range(conns') \ Range(conns) =>
                \A i \in 1..Len(received'[c]) : ~IsMessage(c, i)'
      ]_vars

\* a connection was registered after a broadcast that another connection
\* has read, and it has read its LOGIN only
C20_Witness ==
    \E c \in Range(conns), d \in ConnIds :
        /\ last.status = "ok"
        /\ c \notin Range(last.recips)
        /\ cstate[c] = "open"
        /\ received[c] = <<build_login_msg(port[c])>>
        /\ GotLast(d)
====
